---- MODULE Spec2Model ----
(***************************************************************************)
(* A model of the merge-request reviewer (src/reviewer.py and the comment  *)
(* posting of src/gitlab_client.py): the unified-diff parser, the finding  *)
(* validator, the model-output extractor, the streaming orchestrator and   *)
(* the cache of host clients.                                              *)
(***************************************************************************)
EXTENDS Integers, Sequences, FiniteSets, TLC

VARIABLES
    lines,          \* parser: the diff text, split on newlines
    ps,             \* parser: the locals of parse_diff_for_new_lines
    vin,            \* validator: its three arguments
    vout,           \* validator: what it returned
    text,           \* extractor: the model's raw text
    eout,           \* extractor: how parse_llm_output ended
    diffs,          \* run: the changes get_mr_diffs returned
    post_comments,  \* run: the post_comments argument
    stop_flag,      \* the process-wide _stop_review_flag
    pc,             \* run: where the generator stands
    idx,            \* run: the for loop's index
    cur,            \* run: the parse result of the file being reviewed
    todo,           \* run: the decoded records not yet iterated over
    all_findings,   \* run: the accumulator
    summary,        \* run: the summary entries
    snapshots,      \* run: every snapshot yielded so far, in order
    parsed,         \* run: indices of the files handed to the parser
    llm_calls,      \* run: the model calls: the file's index, and whether it raised
    posts,          \* run: the post_inline_comment invocations
    summary_posts,  \* run: how many times post_summary_comment was invoked
    error,          \* run: the exception that ended the generator, if any
    peer,           \* a second run of the generator, in the same process
    stop_requests,  \* the runs a stop request was aimed at
    live,           \* run: the snapshots whose findings is the list all_findings itself
    result,         \* what review_merge_request returned ({}: nothing yet)
    client_cache,   \* cache: _client_cache, its entries in insertion order
    created,        \* cache: how many clients gitlab.Gitlab(...) has built
    returned        \* cache: the last call of get_gitlab_client and what it returned

parser_vars == <<lines, ps>>
validator_vars == <<vin, vout>>
extractor_vars == <<text, eout>>
peer_vars == <<peer, stop_requests>>
cache_vars == <<client_cache, created, returned>>
run_vars == <<diffs, post_comments, stop_flag, pc, idx, cur, todo, all_findings,
              summary, snapshots, parsed, llm_calls, posts, summary_posts, error,
              peer_vars, live, result, cache_vars>>
vars == <<lines, ps, vin, vout, text, eout, diffs, post_comments, stop_flag, pc,
          idx, cur, todo, all_findings, summary, snapshots, parsed, llm_calls,
          posts, summary_posts, error, peer, stop_requests, live, result,
          client_cache, created, returned>>

BoundedSeq(S, n) == UNION {[1..k -> S] : k \in 0..n}

Last(s) == s[Len(s)]

IsPrefix(s, t) == Len(s) <= Len(t) /\ \A k \in 1..Len(s) : s[k] = t[k]

(***************************************************************************)
(* Diff lines.  The parser looks at a line only through its leading        *)
(* characters and the hunk-header pattern, so a line is written by the     *)
(* longest of the prefixes the code tests that it starts with:             *)
(*   "hunk"  a line the hunk-header pattern matches (o, n: old/new start), *)
(*   "@@"    a line that starts with @@ and does not match the pattern,    *)
(*   "+++", "+", "---", "-", " ", "\\"  that leading text,                 *)
(*   ""      any other line (for one, the empty line).                     *)
(***************************************************************************)
DiffLine(t) == [t |-> t, o |-> 0, n |-> 0]

HunkHeader(o, n) == [t |-> "hunk", o |-> o, n |-> n]

StartsWith(line, prefix) ==
    CASE prefix = "@@"  -> line.t \in {"hunk", "@@"}
      [] prefix = "+"   -> line.t \in {"+", "+++"}
      [] prefix = "+++" -> line.t = "+++"
      [] prefix = "-"   -> line.t \in {"-", "---"}
      [] prefix = "---" -> line.t = "---"
      [] prefix = " "   -> line.t = " "
      [] prefix = "\\"  -> line.t = "\\"

hunk_match(line) == line.t = "hunk"

\* A line of formatted_lines: input line src (0-based) passed through as it is,
\* or re-rendered as "  [num] " followed by the line without its leading "+".
RawLine(i) == [src |-> i, ann |-> FALSE, num |-> 0]

NumberedLine(i, new_line) == [src |-> i, ann |-> TRUE, num |-> new_line]

ParseInit ==
    [i |-> 0, in_hunk |-> FALSE, old_line |-> 0, new_line |-> 0,
     formatted_lines |-> <<>>, line_mapping |-> <<>>, valid_new_lines |-> {},
     formatted_line_num |-> 0]

\* Mutants of MapPut: the line number stored after its increment; the key
\* counted from one.
MapPut_incremented(m, k, v) == [x \in DOMAIN m \cup {k} |-> IF x = k THEN v + 1 ELSE m[x]]

MapPut_from_one(m, k, v) == [x \in DOMAIN m \cup {k + 1} |-> IF x = k + 1 THEN v ELSE m[x]]

\* line_mapping[formatted_line_num] = new_line
MapPut(m, k, v) == [x \in DOMAIN m \cup {k} |-> IF x = k THEN v ELSE m[x]]

\* Mutant of OpenHunk: the new-file counter runs on from the hunk before.
OpenHunk_runs_on(s, line) ==
    [s EXCEPT !.formatted_lines = Append(@, RawLine(s.i)),
              !.formatted_line_num = @ + 1,
              !.old_line = line.o,
              !.new_line = IF s.new_line = 0 THEN line.n ELSE s.new_line,
              !.i = @ + 1,
              !.in_hunk = TRUE]

\* A line that matches the hunk-header pattern: emitted as it is, the two
\* counters set to the header's old_start and new_start.
OpenHunk(s, line) ==
    [s EXCEPT !.formatted_lines = Append(@, RawLine(s.i)),
              !.formatted_line_num = @ + 1,
              !.old_line = line.o,
              !.new_line = line.n,
              !.i = @ + 1,
              !.in_hunk = TRUE]

\* Mutant of PassThrough: the line counted as a line of the new file.
PassThrough_counts(s) ==
    [s EXCEPT !.formatted_lines = Append(@, RawLine(s.i)),
              !.formatted_line_num = @ + 1,
              !.new_line = @ + 1,
              !.i = @ + 1]

\* A line outside the hunks: emitted as it is.
PassThrough(s) ==
    [s EXCEPT !.formatted_lines = Append(@, RawLine(s.i)),
              !.formatted_line_num = @ + 1,
              !.i = @ + 1]

\* One pass of the outer while loop up to the point where the inner loop starts.
OuterStep(ls, s) ==
    LET line == ls[s.i + 1] IN
    IF hunk_match(line) THEN OpenHunk(s, line) ELSE PassThrough(s)

\* Mutant of MarkerStep: the marker skipped and the hunk's lines read on.
MarkerStep_continues(s) == [s EXCEPT !.i = @ + 1]

\* What the inner loop does on a "\" line: break, without consuming the line.
MarkerStep(s) == [s EXCEPT !.in_hunk = FALSE]

\* Mutant of RemovedStep: the removed line emitted as it is.
RemovedStep_emits(s) ==
    [s EXCEPT !.formatted_lines = Append(@, RawLine(s.i)),
              !.formatted_line_num = @ + 1,
              !.old_line = @ + 1,
              !.i = @ + 1]

\* Mutant of RemovedStep: the removed line counted in the new file too.
RemovedStep_counts_new(s) == [s EXCEPT !.old_line = @ + 1, !.new_line = @ + 1, !.i = @ + 1]

\* A removed line: nothing emitted, old_line += 1.
RemovedStep(s) == [s EXCEPT !.old_line = @ + 1, !.i = @ + 1]

\* One pass of the inner while loop (its condition included).
InnerStep(ls, s) ==
    IF s.i >= Len(ls) THEN [s EXCEPT !.in_hunk = FALSE]
    ELSE LET hunk_line == ls[s.i + 1] IN
         IF StartsWith(hunk_line, "@@") THEN [s EXCEPT !.in_hunk = FALSE]
         ELSE IF StartsWith(hunk_line, "+") /\ ~StartsWith(hunk_line, "+++")
         THEN [s EXCEPT !.formatted_lines = Append(@, NumberedLine(s.i, s.new_line)),
                        !.line_mapping = MapPut(@, s.formatted_line_num, s.new_line),
                        !.valid_new_lines = @ \cup {s.new_line},
                        !.formatted_line_num = @ + 1,
                        !.new_line = @ + 1,
                        !.i = @ + 1]
         ELSE IF StartsWith(hunk_line, "-") /\ ~StartsWith(hunk_line, "---")
         THEN RemovedStep(s)
         ELSE IF StartsWith(hunk_line, " ")
         THEN [s EXCEPT !.formatted_lines = Append(@, RawLine(s.i)),
                        !.formatted_line_num = @ + 1,
                        !.old_line = @ + 1,
                        !.new_line = @ + 1,
                        !.i = @ + 1]
         ELSE IF StartsWith(hunk_line, "\\") THEN MarkerStep(s)
         ELSE [s EXCEPT !.formatted_lines = Append(@, RawLine(s.i)),
                        !.formatted_line_num = @ + 1,
                        !.i = @ + 1]

ParseDone(ls, s) == ~s.in_hunk /\ s.i >= Len(ls)

ParseStep(ls, s) == IF s.in_hunk THEN InnerStep(ls, s) ELSE OuterStep(ls, s)

RECURSIVE ParseRun(_, _)
ParseRun(ls, s) == IF ParseDone(ls, s) THEN s ELSE ParseRun(ls, ParseStep(ls, s))

parse_diff_for_new_lines(ls) ==
    LET s == ParseRun(ls, ParseInit) IN
    [formatted_diff |-> s.formatted_lines,
     line_mapping |-> s.line_mapping,
     valid_new_lines |-> s.valid_new_lines]

(***************************************************************************)
(* validate_finding_line.  Optional[int] is written as a set: {} is None,  *)
(* {n} is the line n.                                                      *)
(***************************************************************************)
\* Mutants of validate_finding_line: the reported line trusted as it is; the
\* mapping consulted before the set.
validate_unchecked(finding_line, line_mapping, valid_new_lines) == {finding_line}

validate_mapping_first(finding_line, line_mapping, valid_new_lines) ==
    IF finding_line \in DOMAIN line_mapping
       /\ line_mapping[finding_line] \in valid_new_lines
    THEN {line_mapping[finding_line]}
    ELSE IF finding_line \in valid_new_lines THEN {finding_line}
    ELSE {}

validate_finding_line(finding_line, line_mapping, valid_new_lines) ==
    IF finding_line \in valid_new_lines THEN {finding_line}
    ELSE IF finding_line \in DOMAIN line_mapping
            /\ line_mapping[finding_line] \in valid_new_lines
         THEN {line_mapping[finding_line]}
         ELSE {}

(***************************************************************************)
(* Decoded records.  A JSON value that is an object carries line (absent   *)
(* or null: has_line = FALSE), comment and severity ("absent": no such     *)
(* key, "null": the key with a JSON null, else a string); any other JSON   *)
(* value (a number, a string, a nested array) is NonObject.                *)
(***************************************************************************)
Item(has_line, line, comment, severity) ==
    [obj |-> TRUE, has_line |-> has_line, line |-> line,
     comment |-> comment, severity |-> severity]

NonObject ==
    [obj |-> FALSE, has_line |-> FALSE, line |-> 0,
     comment |-> "absent", severity |-> "absent"]

(***************************************************************************)
(* The model's raw text, as tokens: "[" "]" "," a JSON value ("v", with    *)
(* the value it decodes to), "p", any character that is no JSON, and "[["  *)
(* a run of "[" longer than the interpreter's recursion limit (1000 frames *)
(* by default).                                                            *)
(***************************************************************************)
Tok(k) == [k |-> k, v |-> NonObject]

ValueTok(item) == [k |-> "v", v |-> item]

IsOpen(tok) == tok.k \in {"[", "[["}

Min(S) == CHOOSE x \in S : \A y \in S : x <= y

Max(S) == CHOOSE x \in S : \A y \in S : x >= y

\* re.search(r"\[.*\]", text, re.DOTALL): from the first "[" to the last "]";
\* <<>> stands for no match (a match holds at least the two brackets).
re_search(t) ==
    LET opens == {k \in 1..Len(t) : IsOpen(t[k])}
        closes == {k \in 1..Len(t) : t[k].k = "]"}
    IN IF opens /= {} /\ closes /= {} /\ Min(opens) < Max(closes)
       THEN SubSeq(t, Min(opens), Max(closes))
       ELSE <<>>

\* Arrays open after the first k tokens of the span.
Depth(span, k) ==
    Cardinality({j \in 1..k : IsOpen(span[j])})
    - Cardinality({j \in 1..k : span[j].k = "]"})

\* The token b may follow the token a inside a JSON array.
Follows(a, b) ==
    CASE a \in {"[", "[["} -> b \in {"[", "[[", "v", "]"}
      [] a = "v" -> b \in {",", "]"}
      [] a = "]" -> b \in {",", "]"}
      [] a = "," -> b \in {"v", "[", "[["}
      [] OTHER   -> FALSE

\* Where the decoder meets a syntax error in the span (0: nowhere).
SyntaxErrorAt(span) ==
    LET n == Len(span)
        bad == {k \in 2..n : ~Follows(span[k - 1].k, span[k].k)}
               \cup {k + 1 : k \in {j \in 1..(n - 1) : Depth(span, j) = 0}}
               \cup (IF Depth(span, n) > 0 THEN {n + 1} ELSE {})
    IN IF bad = {} THEN 0 ELSE Min(bad)

\* The decoder recurses once per open array, and the interpreter raises
\* RecursionError past its recursion limit: where the scan meets that (0:
\* nowhere).
RecursionErrorAt(span) ==
    LET deep == {k \in 1..Len(span) : span[k].k = "[["}
    IN IF deep = {} THEN 0 ELSE Min(deep)

\* json.loads on the span: "ok", "JSONDecodeError" or "RecursionError",
\* whichever the left-to-right scan meets first.
json_loads(span) ==
    LET e == SyntaxErrorAt(span)
        r == RecursionErrorAt(span)
    IN IF r /= 0 /\ (e = 0 \/ r < e) THEN "RecursionError"
       ELSE IF e /= 0 THEN "JSONDecodeError"
       ELSE "ok"

\* The elements of a well-formed span, in order (a nested array is one element).
Decoded(span) ==
    LET IsElement(k) == \/ span[k].k = "v" /\ Depth(span, k) = 1
                        \/ span[k].k = "[" /\ Depth(span, k) = 2
        at == SelectSeq([k \in 1..Len(span) |-> k], IsElement)
    IN [j \in 1..Len(at) |-> IF span[at[j]].k = "v" THEN span[at[j]].v ELSE NonObject]

\* parse_llm_output: what it returns, or the exception that leaves it.
parse_llm_output(t) ==
    LET span == re_search(t) IN
    IF span /= <<>>
    THEN CASE json_loads(span) = "ok" -> [raised |-> "", out |-> Decoded(span)]
           [] json_loads(span) = "JSONDecodeError" -> [raised |-> "", out |-> <<>>]
           [] OTHER -> [raised |-> json_loads(span), out |-> <<>>]
    ELSE [raised |-> "", out |-> <<>>]

(***************************************************************************)
(* Bounds of the model.                                                    *)
(***************************************************************************)
MaxDiffLen == 4

MaxKey == 2

MaxLineNo == 3

MaxTextLen == 4

MaxFiles == 2

MaxRecs == 2

MaxCreated == 103

(***************************************************************************)
(* Values of the variables a specification does not use.                   *)
(***************************************************************************)
ParserIdle == lines = <<>> /\ ps = ParseInit

ValidatorIdle ==
    /\ vin = [line |-> 0, line_mapping |-> <<>>, valid_new_lines |-> {}]
    /\ vout = [called |-> FALSE, result |-> {}]

ExtractorIdle == text = <<>> /\ eout = [state |-> "idle", out |-> <<>>]

NoParse == [formatted_diff |-> <<>>, line_mapping |-> <<>>, valid_new_lines |-> {}]

\* No second run, and no stop request aimed at a run.
PeerIdle ==
    /\ peer = [pc |-> "idle", idx |-> 0, files |-> 0, snapshots |-> <<>>]
    /\ stop_requests = {}

\* The cache as the module is imported, before any call.
CacheIdle ==
    /\ client_cache = <<>>
    /\ created = 0
    /\ returned = [key |-> 0, client |-> 0]

RunIdle ==
    /\ PeerIdle
    /\ CacheIdle
    /\ live = {}
    /\ result = {}
    /\ diffs = <<>>
    /\ post_comments = FALSE
    /\ stop_flag = FALSE
    /\ pc = "idle"
    /\ idx = 0
    /\ cur = NoParse
    /\ todo = <<>>
    /\ all_findings = <<>>
    /\ summary = <<>>
    /\ snapshots = <<>>
    /\ parsed = <<>>
    /\ llm_calls = <<>>
    /\ posts = <<>>
    /\ summary_posts = 0
    /\ error = ""

(***************************************************************************)
(* SpecParse: parse_diff_for_new_lines, one loop pass at a time, on every  *)
(* diff of at most MaxDiffLen lines.                                       *)
(***************************************************************************)
DiffLines ==
    {HunkHeader(1, 1), HunkHeader(2, 3)}
    \cup {DiffLine(t) : t \in {"+", "-", " ", "\\", "+++", "---", "@@", ""}}

InitParse ==
    /\ lines \in BoundedSeq(DiffLines, MaxDiffLen)
    /\ ps = ParseInit
    /\ ValidatorIdle /\ ExtractorIdle /\ RunIdle

ParseOuter ==
    /\ ~ps.in_hunk
    /\ ps.i < Len(lines)
    /\ ps' = OuterStep(lines, ps)
    /\ UNCHANGED <<lines, validator_vars, extractor_vars, run_vars>>

ParseInner ==
    /\ ps.in_hunk
    /\ ps' = InnerStep(lines, ps)
    /\ UNCHANGED <<lines, validator_vars, extractor_vars, run_vars>>

NextParse == ParseOuter \/ ParseInner

SpecParse == InitParse /\ [][NextParse]_vars

\* The parser is a sequential function: once called, it takes its next step.
SpecParseRuns == InitParse /\ [][NextParse]_vars /\ WF_vars(NextParse)

(***************************************************************************)
(* SpecValidate: validate_finding_line on every reported line, mapping and *)
(* set within the bounds.                                                  *)
(***************************************************************************)
LineMappings == UNION {[D -> 1..MaxLineNo] : D \in SUBSET (0..MaxKey)}

InitValidate ==
    /\ vin \in [line : 0..MaxLineNo, line_mapping : LineMappings,
                valid_new_lines : SUBSET (1..MaxLineNo)]
    /\ vout = [called |-> FALSE, result |-> {}]
    /\ ParserIdle /\ ExtractorIdle /\ RunIdle

Validate ==
    /\ ~vout.called
    /\ vout' = [called |-> TRUE,
                result |-> validate_finding_line(vin.line, vin.line_mapping,
                                                 vin.valid_new_lines)]
    /\ UNCHANGED <<vin, parser_vars, extractor_vars, run_vars>>

NextValidate == Validate

SpecValidate == InitValidate /\ [][NextValidate]_vars

(***************************************************************************)
(* SpecExtract: parse_llm_output on every text of at most MaxTextLen       *)
(* tokens.                                                                 *)
(***************************************************************************)
ScenarioRecord == Item(TRUE, 2, "str", "low")

TextTokens ==
    {Tok("["), Tok("[["), Tok("]"), Tok(","), Tok("p"), ValueTok(ScenarioRecord)}

InitExtract ==
    /\ text \in BoundedSeq(TextTokens, MaxTextLen)
    /\ eout = [state |-> "idle", out |-> <<>>]
    /\ ParserIdle /\ ValidatorIdle /\ RunIdle

Extract ==
    /\ eout.state = "idle"
    /\ LET r == parse_llm_output(text) IN
       eout' = [state |-> IF r.raised = "" THEN "returned" ELSE r.raised, out |-> r.out]
    /\ UNCHANGED <<text, parser_vars, validator_vars, run_vars>>

NextExtract == Extract

SpecExtract == InitExtract /\ [][NextExtract]_vars

(***************************************************************************)
(* Spec: one run of review_merge_request_stream against its collaborators  *)
(* (the host API, the model client, the consumer of the generator) and     *)
(* the stop flag, which any thread may set or clear at any time.           *)
(***************************************************************************)
\* Scenario A's diff; a diff with only a deletion; a diff with a file-header
\* line and two added lines; the empty diff text (split gives one empty
\* line); a diff of file-header lines and no hunk.
DiffA == <<HunkHeader(1, 1), DiffLine(" "), DiffLine("+"), DiffLine(" ")>>

DiffDel == <<HunkHeader(1, 1), DiffLine("-")>>

DiffB == <<DiffLine(""), HunkHeader(1, 4), DiffLine("+"), DiffLine("+")>>

DiffEmpty == <<DiffLine("")>>

DiffNoHunk == <<DiffLine("---"), DiffLine("+++")>>

ChangedDiffs == {DiffA, DiffDel, DiffB, DiffEmpty, DiffNoHunk}

\* The records a model may return: a line that is valid (or maps to a valid
\* line), a line that is neither, no line, no comment, no severity, a value
\* that is no object, and a record with a rejected line and a null comment.
Records ==
    {Item(TRUE, 2, "str", "low"),
     Item(TRUE, 9, "str", "low"),
     Item(FALSE, 0, "str", "low"),
     Item(TRUE, 2, "absent", "low"),
     Item(TRUE, 2, "str", "absent"),
     NonObject,
     Item(TRUE, 9, "null", "low")}

RECURSIVE Joined(_)
Joined(recs) ==
    IF recs = <<>> THEN <<>>
    ELSE IF Len(recs) = 1 THEN <<ValueTok(recs[1])>>
    ELSE <<ValueTok(recs[1]), Tok(",")>> \o Joined(Tail(recs))

\* A JSON array of the records, wrapped in prose.
Wrapped(recs) == <<Tok("p"), Tok("[")>> \o Joined(recs) \o <<Tok("]"), Tok("p")>>

\* A reply with two records on different lines, in either order (for DiffB
\* both lines map to added lines; for DiffA the second is rejected).
OtherRecord == Item(TRUE, 3, "str", "low")

TwoLineTexts ==
    {Wrapped(<<ScenarioRecord, OtherRecord>>), Wrapped(<<OtherRecord, ScenarioRecord>>)}

\* Replies whose record has a severity outside low, medium, high: another
\* word, and null.
UrgentRecord == Item(TRUE, 2, "str", "urgent")

NullSeverityRecord == Item(TRUE, 2, "str", "null")

SeverityTexts == {Wrapped(<<UrgentRecord>>), Wrapped(<<NullSeverityRecord>>)}

ModelTexts ==
    {Wrapped(recs) : recs \in BoundedSeq(Records, MaxRecs)}
    \cup TwoLineTexts
    \cup SeverityTexts
    \cup {<<Tok("p")>>, <<Tok("["), Tok("p"), Tok("]")>>, <<Tok("[["), Tok("]")>>}

\* What the host answers inside post_inline_comment.
HostReplies == {"ok", "unconfigured", "fetch_error", "no_diff_refs", "no_target",
                "create_error"}

\* post_inline_comment: "raised" when an exception leaves it, else "returned".
post_inline_comment(host) ==
    CASE host = "unconfigured" -> "raised"
      [] host = "fetch_error"  -> "raised"
      [] host = "no_diff_refs" -> "returned"
      [] host = "no_target"    -> "returned"
      [] host = "create_error" -> "returned"
      [] OTHER                 -> "returned"

is_stopped == stop_flag

Snapshot(findings, summ, files_reviewed, cancelled, done) ==
    [findings |-> findings, summary |-> summ, total_findings |-> Len(findings),
     files_reviewed |-> files_reviewed, cancelled |-> cancelled, done |-> done]

\* Mutants of CancelSnapshot: the file at the boundary counted as reviewed;
\* the accumulator not handed over.
CancelSnapshot_counts_file == Snapshot(all_findings, summary, idx + 1, TRUE, TRUE)

CancelSnapshot_empty == Snapshot(<<>>, <<>>, idx, TRUE, TRUE)

\* The snapshot yielded when the flag is seen set at the head of the loop.
CancelSnapshot == Snapshot(all_findings, summary, idx, TRUE, TRUE)

\* Mutants of FileSnapshot: the final snapshot's count; the final snapshot's
\* done; the flag looked at when the file's snapshot is built.
FileSnapshot_total == Snapshot(all_findings, summary, Len(diffs), FALSE, FALSE)

FileSnapshot_done == Snapshot(all_findings, summary, idx + 1, FALSE, TRUE)

FileSnapshot_checks_flag == Snapshot(all_findings, summary, idx + 1, is_stopped, is_stopped)

\* The snapshot yielded after a file's records (copies of the two lists).
FileSnapshot == Snapshot(all_findings, summary, idx + 1, FALSE, FALSE)

\* Mutant of FinalSnapshot: the files sent to the model counted, not all files.
FinalSnapshot_counts_reviewed == Snapshot(all_findings, summary, Len(llm_calls), FALSE, TRUE)

\* The snapshot yielded after the loop.
FinalSnapshot == Snapshot(all_findings, summary, Len(diffs), FALSE, TRUE)

\* The run before its first step.
InitRun ==
    /\ diffs \in BoundedSeq(ChangedDiffs, MaxFiles)
    /\ post_comments \in BOOLEAN
    /\ stop_flag \in BOOLEAN
    /\ pc = "new"
    /\ idx = 0
    /\ cur = NoParse
    /\ todo = <<>>
    /\ all_findings = <<>>
    /\ summary = <<>>
    /\ snapshots = <<>>
    /\ parsed = <<>>
    /\ llm_calls = <<>>
    /\ posts = <<>>
    /\ summary_posts = 0
    /\ error = ""
    /\ live = {}
    /\ result = {}
    /\ CacheIdle
    /\ ParserIdle /\ ValidatorIdle /\ ExtractorIdle

Init == InitRun /\ PeerIdle

\* What a step of the run leaves alone: the other components, the second run
\* and the wrapper's return value; and, for a step that yields nothing, which
\* lists the snapshots hold.
component_vars == <<parser_vars, validator_vars, extractor_vars, peer_vars, result,
                    cache_vars>>

other_vars == <<component_vars, live>>

\* An exception leaves the generator: it is finished and yields nothing more.
Raise(e) == pc' = "raised" /\ error' = e

\* Mutant of Start: the flag left as it was found.
Start_keeps_flag ==
    /\ pc = "new"
    /\ stop_flag' = stop_flag
    /\ \/ pc' = "loop" /\ error' = error
       \/ Raise("get_mr_diffs")
    /\ UNCHANGED <<diffs, post_comments, idx, cur, todo, all_findings, summary,
                   snapshots, parsed, llm_calls, posts, summary_posts, other_vars>>

\* The first next() on the generator: up to the head of the for loop.
Start ==
    /\ pc = "new"
    /\ stop_flag' = FALSE
    /\ \/ pc' = "loop" /\ error' = error
       \/ Raise("get_mr_diffs")
    /\ UNCHANGED <<diffs, post_comments, idx, cur, todo, all_findings, summary,
                   snapshots, parsed, llm_calls, posts, summary_posts, other_vars>>

\* The head of one pass of the for loop, with the flag seen set.
CancelAtBoundary ==
    /\ pc = "loop" /\ idx < Len(diffs)
    /\ is_stopped
    /\ snapshots' = Append(snapshots, CancelSnapshot)
    /\ live' = live \cup {Len(snapshots) + 1}
    /\ pc' = "cancelled"
    /\ UNCHANGED <<diffs, post_comments, stop_flag, idx, cur, todo, all_findings,
                   summary, parsed, llm_calls, posts, summary_posts, error,
                   component_vars>>

\* Mutant of SkipFile: every file is sent on to the model.
SkipFile_never(r) == FALSE

\* The else branch of "if valid_new_lines": continue with the next file.
SkipFile(r) == r.valid_new_lines = {}

\* The head of one pass of the for loop, flag clear: parse the diff, and
\* either skip the file or go on to the model call.
BeginFile ==
    /\ pc = "loop" /\ idx < Len(diffs)
    /\ ~is_stopped
    /\ LET r == parse_diff_for_new_lines(diffs[idx + 1]) IN
       /\ cur' = r
       /\ parsed' = Append(parsed, idx)
       /\ IF SkipFile(r)
          THEN pc' = "loop" /\ idx' = idx + 1
          ELSE pc' = "llm" /\ idx' = idx
    /\ UNCHANGED <<diffs, post_comments, stop_flag, todo, all_findings, summary,
                   snapshots, llm_calls, posts, summary_posts, error, other_vars>>

\* Mutant of ModelRaises: the exception caught, the file taken to have no findings.
ModelRaises_swallowed == pc' = "records" /\ todo' = <<>> /\ error' = error

\* The text holds a bracket span that json.loads decodes.
Decodes(t) == re_search(t) /= <<>> /\ json_loads(re_search(t)) = "ok"

\* One call of the model client: the file, whether the call raised, and
\* whether the text it returned decodes.
ModelCall(raised, decoded) == [file |-> idx, raised |-> raised, decoded |-> decoded]

\* Mutant of ModelRaises: the call is made again.
ModelRaises_retries == pc' = "llm" /\ error' = error /\ todo' = todo

\* The model call raises: nothing catches it.
ModelRaises == Raise("model") /\ todo' = todo

\* review_llm(formatted_prompt), then parse_llm_output on what it returned.
CallModel ==
    /\ pc = "llm"
    /\ \/ /\ llm_calls' = Append(llm_calls, ModelCall(TRUE, FALSE))
          /\ ModelRaises
       \/ \E t \in ModelTexts :
            /\ llm_calls' = Append(llm_calls, ModelCall(FALSE, Decodes(t)))
            /\ LET r == parse_llm_output(t) IN
               IF r.raised /= ""
               THEN Raise(r.raised) /\ todo' = todo
               ELSE pc' = "records" /\ todo' = r.out /\ error' = error
    /\ UNCHANGED <<diffs, post_comments, stop_flag, idx, cur, all_findings, summary,
                   snapshots, parsed, posts, summary_posts, other_vars>>

Finding(item, actual_line_num) ==
    [file |-> idx, line |-> actual_line_num, comment |-> item.comment,
     severity |-> item.severity]

\* Mutant of SummaryEntry: the file's number counted from one.
SummaryEntry_from_one(actual_line_num) == [file |-> idx + 1, line |-> actual_line_num]

\* f"- `{file_path}:{actual_line_num}` {item['comment']}..."
SummaryEntry(actual_line_num) == [file |-> idx, line |-> actual_line_num]

\* post_inline_comment(..., file_path=file_path, new_line=actual_line_num, ...)
InlineComment(item, actual_line_num) == [file |-> idx, line |-> actual_line_num]

\* The record is dropped: the loop goes on with the next one.
DropRecord ==
    /\ todo' = Tail(todo)
    /\ UNCHANGED <<pc, error, all_findings, summary, posts>>

\* An exception inside the records loop: the generator's frame is gone, and
\* with it the records not yet taken up.
RecordRaises(e) ==
    /\ Raise(e)
    /\ todo' = <<>>
    /\ UNCHANGED <<all_findings, summary, posts>>

\* The validator rejected the line: the three diagnostics, then continue.
\* The last one slices item.get('comment', 'Unknown'), which a null fails.
RejectRecord(item) ==
    IF item.comment = "null" THEN RecordRaises("TypeError") ELSE DropRecord

\* Mutant of Accumulate: the new finding put first.
Accumulate_front(findings, finding) == <<finding>> \o findings

\* all_findings.append(finding)
Accumulate(findings, finding) == Append(findings, finding)

\* The line is valid: build the finding, append it, post it, summarise it.
AcceptRecord(item, actual_line_num) ==
    IF item.comment = "absent" \/ item.severity = "absent"
    THEN RecordRaises("KeyError")
    ELSE /\ all_findings' = Accumulate(all_findings, Finding(item, actual_line_num))
         /\ IF ~post_comments
            THEN /\ posts' = posts
                 /\ summary' = Append(summary, SummaryEntry(actual_line_num))
                 /\ todo' = Tail(todo)
                 /\ UNCHANGED <<pc, error>>
            ELSE IF item.severity = "null"
            THEN Raise("AttributeError") /\ todo' = <<>> /\ UNCHANGED <<summary, posts>>
            ELSE /\ posts' = Append(posts, InlineComment(item, actual_line_num))
                 /\ \E host \in HostReplies :
                      IF post_inline_comment(host) = "raised"
                      THEN Raise("post_inline_comment") /\ todo' = <<>> /\ summary' = summary
                      ELSE /\ summary' = Append(summary, SummaryEntry(actual_line_num))
                           /\ todo' = Tail(todo)
                           /\ UNCHANGED <<pc, error>>

\* One pass of the loop over the decoded records.
ProcessRecord ==
    /\ pc = "records" /\ todo /= <<>>
    /\ LET item == Head(todo) IN
       IF ~item.obj THEN RecordRaises("AttributeError")
       ELSE IF ~item.has_line THEN DropRecord
       ELSE LET actual == validate_finding_line(item.line, cur.line_mapping,
                                                cur.valid_new_lines)
            IN IF actual = {} THEN RejectRecord(item)
               ELSE AcceptRecord(item, CHOOSE n \in actual : TRUE)
    /\ UNCHANGED <<diffs, post_comments, stop_flag, idx, cur, snapshots, parsed,
                   llm_calls, summary_posts, other_vars>>

\* The records are exhausted: yield the file's snapshot (copies).
EmitSnapshot ==
    /\ pc = "records" /\ todo = <<>>
    /\ snapshots' = Append(snapshots, FileSnapshot)
    /\ live' = live
    /\ pc' = "yielded"
    /\ UNCHANGED <<diffs, post_comments, stop_flag, idx, cur, todo, all_findings,
                   summary, parsed, llm_calls, posts, summary_posts, error,
                   component_vars>>

\* The consumer asks for the next snapshot: the for loop advances.
Resume ==
    /\ pc = "yielded"
    /\ idx' = idx + 1
    /\ pc' = "loop"
    /\ UNCHANGED <<diffs, post_comments, stop_flag, cur, todo, all_findings, summary,
                   snapshots, parsed, llm_calls, posts, summary_posts, error, other_vars>>

\* Mutant of ShouldPostSummary: an empty summary is posted too.
ShouldPostSummary_always == post_comments

\* if post_comments and summary
ShouldPostSummary == post_comments /\ summary /= <<>>

\* After the loop: the summary comment, then the final snapshot.
Finish ==
    /\ pc = "loop" /\ idx = Len(diffs)
    /\ IF ShouldPostSummary
       THEN /\ summary_posts' = summary_posts + 1
            /\ \/ Raise("post_summary_comment") /\ snapshots' = snapshots
                  /\ live' = live
               \/ /\ snapshots' = Append(snapshots, FinalSnapshot)
                  /\ live' = live \cup {Len(snapshots) + 1}
                  /\ pc' = "final" /\ error' = error
       ELSE /\ summary_posts' = summary_posts
            /\ snapshots' = Append(snapshots, FinalSnapshot)
            /\ live' = live \cup {Len(snapshots) + 1}
            /\ pc' = "final" /\ error' = error
    /\ UNCHANGED <<diffs, post_comments, stop_flag, idx, cur, todo, all_findings,
                   summary, parsed, llm_calls, posts, component_vars>>

\* Mutant of Close: after the cancelled snapshot the loop is left with break,
\* not return, and the code after the loop runs.
Close_breaks ==
    /\ pc \in {"cancelled", "final"}
    /\ IF pc = "cancelled"
       THEN pc' = "loop" /\ idx' = Len(diffs)
       ELSE pc' = "done" /\ idx' = idx
    /\ UNCHANGED <<diffs, post_comments, stop_flag, cur, todo, all_findings,
                   summary, snapshots, parsed, llm_calls, posts, summary_posts, error,
                   other_vars>>

\* The consumer asks again after a terminal snapshot: the generator returns.
Close ==
    /\ pc \in {"cancelled", "final"}
    /\ pc' = "done"
    /\ UNCHANGED <<diffs, post_comments, stop_flag, idx, cur, todo, all_findings,
                   summary, snapshots, parsed, llm_calls, posts, summary_posts, error,
                   other_vars>>

set_stop_flag ==
    /\ stop_flag' = TRUE
    /\ UNCHANGED <<diffs, post_comments, pc, idx, cur, todo, all_findings, summary,
                   snapshots, parsed, llm_calls, posts, summary_posts, error, other_vars>>

reset_stop_flag ==
    /\ stop_flag' = FALSE
    /\ UNCHANGED <<diffs, post_comments, pc, idx, cur, todo, all_findings, summary,
                   snapshots, parsed, llm_calls, posts, summary_posts, error, other_vars>>

Next ==
    \/ Start
    \/ CancelAtBoundary
    \/ BeginFile
    \/ CallModel
    \/ ProcessRecord
    \/ EmitSnapshot
    \/ Resume
    \/ Finish
    \/ Close
    \/ set_stop_flag
    \/ reset_stop_flag

Spec == Init /\ [][Next]_vars

(***************************************************************************)
(* SpecTwoRuns: the run above and a second run of the same generator in    *)
(* the same process (two sessions of the web front-end), each with a stop  *)
(* button.  Both runs read and clear the one _stop_review_flag.  Of the    *)
(* second run only the steps that touch the flag or yield are kept apart:  *)
(* the work on one file (parse, model call, records) is one step, since it *)
(* reads and writes nothing the first run sees.                            *)
(***************************************************************************)
Runs == {1, 2}

PeerSnapshot(files_reviewed, cancelled, done) ==
    [files_reviewed |-> files_reviewed, cancelled |-> cancelled, done |-> done]

InitTwoRuns ==
    /\ InitRun
    /\ peer \in [pc : {"new"}, idx : {0}, files : 1..MaxFiles, snapshots : {<<>>}]
    /\ stop_requests = {}

two_runs_unchanged == <<diffs, post_comments, pc, idx, cur, todo, all_findings, summary,
                        snapshots, parsed, llm_calls, posts, summary_posts, error,
                        live, result, cache_vars, parser_vars, validator_vars,
                        extractor_vars>>

\* The second run's first next(): reset_stop_flag(), then get_mr_diffs.
PeerStart ==
    /\ peer.pc = "new"
    /\ stop_flag' = FALSE
    /\ \/ peer' = [peer EXCEPT !.pc = "loop"]
       \/ peer' = [peer EXCEPT !.pc = "raised"]
    /\ UNCHANGED <<stop_requests, two_runs_unchanged>>

\* The second run sees the flag set at the head of a file's pass.
PeerCancel ==
    /\ peer.pc = "loop" /\ peer.idx < peer.files
    /\ is_stopped
    /\ peer' = [peer EXCEPT !.pc = "cancelled",
                            !.snapshots = Append(@, PeerSnapshot(peer.idx, TRUE, TRUE))]
    /\ UNCHANGED <<stop_flag, stop_requests, two_runs_unchanged>>

\* The second run's pass over one file, flag clear: the file is skipped, or
\* reviewed and its snapshot yielded, or an exception ends the run.
PeerFile ==
    /\ peer.pc = "loop" /\ peer.idx < peer.files
    /\ ~is_stopped
    /\ \/ peer' = [peer EXCEPT !.idx = @ + 1]
       \/ peer' = [peer EXCEPT !.idx = @ + 1,
                               !.snapshots = Append(@, PeerSnapshot(peer.idx + 1, FALSE, FALSE))]
       \/ peer' = [peer EXCEPT !.pc = "raised"]
    /\ UNCHANGED <<stop_flag, stop_requests, two_runs_unchanged>>

\* The second run after its loop: the summary comment and the final snapshot.
PeerFinish ==
    /\ peer.pc = "loop" /\ peer.idx = peer.files
    /\ \/ peer' = [peer EXCEPT !.pc = "final",
                               !.snapshots = Append(@, PeerSnapshot(peer.files, FALSE, TRUE))]
       \/ peer' = [peer EXCEPT !.pc = "raised"]
    /\ UNCHANGED <<stop_flag, stop_requests, two_runs_unchanged>>

RunActive(r) ==
    IF r = 1 THEN pc \in {"loop", "llm", "records", "yielded"} ELSE peer.pc = "loop"

\* stop_review of the session that owns run r: set_stop_flag().
StopRequest(r) ==
    /\ RunActive(r)
    /\ stop_flag' = TRUE
    /\ stop_requests' = stop_requests \cup {r}
    /\ UNCHANGED <<peer, two_runs_unchanged>>

NextTwoRuns ==
    \/ Start
    \/ CancelAtBoundary
    \/ BeginFile
    \/ CallModel
    \/ ProcessRecord
    \/ EmitSnapshot
    \/ Resume
    \/ Finish
    \/ Close
    \/ PeerStart
    \/ PeerCancel
    \/ PeerFile
    \/ PeerFinish
    \/ \E r \in Runs : StopRequest(r)

SpecTwoRuns == InitTwoRuns /\ [][NextTwoRuns]_vars

(***************************************************************************)
(* SpecRestart: one run, started while the flag is still set from a stop   *)
(* request that was aimed at an earlier run (the second run of Runs, which *)
(* is over), with the stop requests made while the run is active on        *)
(* record.                                                                 *)
(***************************************************************************)
InitRestart ==
    /\ InitRun
    /\ stop_flag = TRUE
    /\ peer = [pc |-> "idle", idx |-> 0, files |-> 0, snapshots |-> <<>>]
    /\ stop_requests = {2}

NextRestart ==
    \/ Start
    \/ CancelAtBoundary
    \/ BeginFile
    \/ CallModel
    \/ ProcessRecord
    \/ EmitSnapshot
    \/ Resume
    \/ Finish
    \/ Close
    \/ StopRequest(1)

SpecRestart == InitRestart /\ [][NextRestart]_vars

(***************************************************************************)
(* SpecConsumer: the run, and a consumer that writes to what it was        *)
(* handed.  A snapshot's findings is a Python list of dicts: the per-file  *)
(* yield hands out all_findings.copy(), a new list of the same dicts; the  *)
(* cancelled and the final yield hand out all_findings itself.  A dict     *)
(* sits at the same position of every list that holds it, since every     *)
(* list is a prefix of the accumulator, or was cleared.                    *)
(***************************************************************************)
\* The generator is suspended at a yield, or over: the consumer's turn.
Suspended == pc \in {"yielded", "cancelled", "final", "done", "raised"}

\* d['comment'] = ... on the j-th dict of a list that holds it.
Edited(findings, j) ==
    IF j <= Len(findings) THEN [findings EXCEPT ![j].comment = "edited"] ELSE findings

\* snapshot['findings'][j]['comment'] = ...: the one dict is changed, in the
\* accumulator and in every snapshot that holds it.
ConsumerEdits(k, j) ==
    /\ Suspended
    /\ k \in 1..Len(snapshots)
    /\ j \in 1..Len(snapshots[k].findings)
    /\ snapshots[k].findings[j].comment # "edited"
    /\ snapshots' = [m \in 1..Len(snapshots) |->
                        [snapshots[m] EXCEPT !.findings = Edited(@, j)]]
    /\ all_findings' = Edited(all_findings, j)
    /\ UNCHANGED <<diffs, post_comments, stop_flag, pc, idx, cur, todo, summary,
                   parsed, llm_calls, posts, summary_posts, error, other_vars>>

\* snapshot['findings'].clear(): the list is emptied; when it is the
\* accumulator, so is every other snapshot that is the accumulator.
ConsumerClears(k) ==
    /\ Suspended
    /\ k \in 1..Len(snapshots)
    /\ snapshots[k].findings # <<>>
    /\ snapshots' = [m \in 1..Len(snapshots) |->
                        IF m = k \/ (k \in live /\ m \in live)
                        THEN [snapshots[m] EXCEPT !.findings = <<>>]
                        ELSE snapshots[m]]
    /\ all_findings' = IF k \in live THEN <<>> ELSE all_findings
    /\ UNCHANGED <<diffs, post_comments, stop_flag, pc, idx, cur, todo, summary,
                   parsed, llm_calls, posts, summary_posts, error, other_vars>>

NextConsumer ==
    \/ Start
    \/ CancelAtBoundary
    \/ BeginFile
    \/ CallModel
    \/ ProcessRecord
    \/ EmitSnapshot
    \/ Resume
    \/ Finish
    \/ Close
    \/ set_stop_flag
    \/ reset_stop_flag
    \/ \E k \in 1..MaxFiles + 1, j \in 1..MaxFiles * MaxRecs : ConsumerEdits(k, j)
    \/ \E k \in 1..MaxFiles + 1 : ConsumerClears(k)

SpecConsumer == Init /\ [][NextConsumer]_vars

(***************************************************************************)
(* SpecWrapper: the run with review_merge_request as its consumer.  The    *)
(* wrapper's for loop takes each snapshot as it is yielded: it returns the *)
(* first one whose done is true, with the key popped, and asks for the     *)
(* next one otherwise.  The generator it returns from is never resumed.    *)
(* An exception of the generator leaves the wrapper too: nothing is        *)
(* returned.  The dict after the loop is returned when the generator ends  *)
(* without a done snapshot, which no path of the generator does.           *)
(***************************************************************************)
\* Mutant of IsDone: every snapshot taken for the terminal one.
IsDone_always(snapshot) == TRUE

\* result.get('done', False)
IsDone(snapshot) == snapshot.done

\* result.pop('done', None)
PopDone(snapshot) == [key \in DOMAIN snapshot \ {"done"} |-> snapshot[key]]

\* One pass of the wrapper's for loop over the snapshot just yielded.
review_merge_request ==
    /\ pc \in {"yielded", "cancelled", "final"}
    /\ IF IsDone(Last(snapshots))
       THEN /\ result' = {PopDone(Last(snapshots))}
            /\ pc' = "done"
            /\ idx' = idx
       ELSE /\ result' = result
            /\ pc' = "loop"
            /\ idx' = idx + 1
    /\ UNCHANGED <<diffs, post_comments, stop_flag, cur, todo, all_findings, summary,
                   snapshots, parsed, llm_calls, posts, summary_posts, error, live,
                   parser_vars, validator_vars, extractor_vars, peer_vars, cache_vars>>

NextWrapper ==
    \/ Start
    \/ CancelAtBoundary
    \/ BeginFile
    \/ CallModel
    \/ ProcessRecord
    \/ EmitSnapshot
    \/ Finish
    \/ review_merge_request
    \/ set_stop_flag
    \/ reset_stop_flag

SpecWrapper == Init /\ [][NextWrapper]_vars

(***************************************************************************)
(* SpecCache: get_gitlab_client, one call after another.  _client_cache is *)
(* a dict: its keys come out in insertion order, so it is written as the   *)
(* sequence of its entries.  A cache key is a hash of url and token; the   *)
(* keys are numbered as they are first seen, 0 standing for a call with no *)
(* url or no token.  A call comes for a key of the cache, for a key never  *)
(* seen, or for one that was evicted (the oldest or the newest such key).  *)
(***************************************************************************)
CacheLimit == 100

EvictCount == 50

KeysOf(cache) == {cache[p].key : p \in 1..Len(cache)}

\* _client_cache[cache_key]
ClientOf(cache, key) == cache[CHOOSE p \in 1..Len(cache) : cache[p].key = key].client

\* Mutant of Evict: the newest entries removed.
Evict_newest(cache) == SubSeq(cache, 1, Len(cache) - EvictCount)

\* keys_to_remove = list(_client_cache.keys())[:50], then del for each.
Evict(cache) == SubSeq(cache, Min({EvictCount, Len(cache)}) + 1, Len(cache))

EvictedKeys == {k \in 1..created : k \notin KeysOf(client_cache)}

CacheCalls ==
    {0, created + 1} \cup KeysOf(client_cache)
    \cup (IF EvictedKeys = {} THEN {} ELSE {Min(EvictedKeys), Max(EvictedKeys)})

get_gitlab_client(key) ==
    /\ IF key = 0
       THEN /\ returned' = [key |-> 0, client |-> 0]
            /\ UNCHANGED <<client_cache, created>>
       ELSE IF key \in KeysOf(client_cache)
       THEN /\ returned' = [key |-> key, client |-> ClientOf(client_cache, key)]
            /\ UNCHANGED <<client_cache, created>>
       ELSE /\ created < MaxCreated
            /\ created' = created + 1
            /\ LET client == created + 1
                   cache == Append(client_cache, [key |-> key, client |-> client])
               IN  /\ client_cache' = IF Len(cache) > CacheLimit THEN Evict(cache) ELSE cache
                   /\ returned' = [key |-> key, client |-> client]
    /\ UNCHANGED <<parser_vars, validator_vars, extractor_vars, diffs, post_comments,
                   stop_flag, pc, idx, cur, todo, all_findings, summary, snapshots,
                   parsed, llm_calls, posts, summary_posts, error, peer_vars, live,
                   result>>

InitCache == ParserIdle /\ ValidatorIdle /\ ExtractorIdle /\ RunIdle

NextCache == \E key \in CacheCalls : get_gitlab_client(key)

SpecCache == InitCache /\ [][NextCache]_vars

(***************************************************************************)
(* The claims.                                                             *)
(***************************************************************************)
\* The hunk header that governs line j of a diff (0: j lies before the first).
HeaderOf(ls, j) ==
    LET hs == {k \in 1..(j - 1) : ls[k].t = "hunk"} IN
    IF hs = {} THEN 0 ELSE Max(hs)

\* The added lines of the hunks of a diff.
AddedAt(ls) == {j \in 1..Len(ls) : ls[j].t = "+" /\ HeaderOf(ls, j) /= 0}

\* The new-file line number of added line j: its hunk's new_start plus the
\* context and added lines before it in the hunk.
NewFileLine(ls, j) ==
    LET h == HeaderOf(ls, j) IN
    ls[h].n + Cardinality({k \in (h + 1)..(j - 1) : ls[k].t \in {" ", "+"}})

AddedLineNumbers(ls) == {NewFileLine(ls, j) : j \in AddedAt(ls)}

\* The diffs C1 speaks of: file-header lines, hunk headers, context, added,
\* removed and no-newline marker lines.
WellFormedDiff(ls) == \A j \in 1..Len(ls) : ls[j].t /= "@@"

\* C1: for every diff text, valid_new_lines is exactly the set of new-file
\* line numbers of the added lines of all hunks: none missing, none extra.
C1_ValidLinesAreTheAddedLines ==
    (ParseDone(lines, ps) /\ WellFormedDiff(lines))
        => ps.valid_new_lines = AddedLineNumbers(lines)

FindingsOf(fs) == {fs[j] : j \in 1..Len(fs)}

\* What the parser returns as valid_new_lines for each diff of the catalogue.
ValidLinesOf == [d \in ChangedDiffs |-> parse_diff_for_new_lines(d).valid_new_lines]

ValidLinesOfFile(f) == ValidLinesOf[diffs[f + 1]]

\* C2: every Finding of every snapshot, and of the accumulator, has a line
\* that is in the valid_new_lines the parser computes for the Finding's file.
C2_FindingLinesAreValid ==
    /\ \A k \in 1..Len(snapshots) : \A f \in FindingsOf(snapshots[k].findings) :
         f.line \in ValidLinesOfFile(f.file)
    /\ \A f \in FindingsOf(all_findings) : f.line \in ValidLinesOfFile(f.file)

\* A snapshot that holds a finding of each of two files, one of them on a line
\* the model named by its position in the annotated text.
C2_Witness ==
    /\ snapshots /= <<>>
    /\ \E f, g \in FindingsOf(Last(snapshots).findings) :
         f.file /= g.file /\ f.line = 2 /\ g.line = 4

\* C3: the validator returns the reported line when it is in valid_new_lines
\* (whatever position_map holds for it); else the mapped value when the line
\* is a key of position_map whose value is in valid_new_lines; else None.
C3_ResolutionOrder ==
    vout.called =>
        LET l == vin.line
            m == vin.line_mapping
            v == vin.valid_new_lines
            mapped == l \in DOMAIN m /\ m[l] \in v
        IN /\ l \in v => vout.result = {l}
           /\ (l \notin v /\ mapped) => vout.result = {m[l]}
           /\ (l \notin v /\ ~mapped) => vout.result = {}

\* The reported line is valid and is also a key that maps to another valid line.
C3_Witness ==
    /\ vout.called
    /\ vin.line \in vin.valid_new_lines
    /\ vin.line \in DOMAIN vin.line_mapping
    /\ vin.line_mapping[vin.line] \in vin.valid_new_lines \ {vin.line}
    /\ vout.result = {vin.line}

\* The generator took a step (the flag's setters change none of these).
RunStepped == <<pc, idx, todo, snapshots, parsed>>' /= <<pc, idx, todo, snapshots, parsed>>

FilesOf(calls) == {calls[k].file : k \in 1..Len(calls)}

C4_AtBoundary ==
    (pc = "loop" /\ idx < Len(diffs) /\ stop_flag /\ RunStepped)
        => /\ snapshots' = Append(snapshots,
                 [findings |-> all_findings, summary |-> summary,
                  total_findings |-> Len(all_findings), files_reviewed |-> idx,
                  cancelled |-> TRUE, done |-> TRUE])
           /\ pc' = "cancelled"
           /\ UNCHANGED <<idx, parsed, llm_calls, posts, summary_posts, all_findings>>

C4_AfterCancel ==
    \A k \in 1..Len(snapshots) :
        snapshots[k].cancelled =>
            /\ k = Len(snapshots)
            /\ snapshots[k].done
            /\ snapshots[k].files_reviewed = idx
            /\ pc \in {"cancelled", "done"}
            /\ \A j \in 1..Len(parsed) : parsed[j] < idx
            /\ \A f \in FilesOf(llm_calls) \cup FilesOf(posts) : f < idx

\* C4: the flag seen set at the head of a file's iteration yields one snapshot
\* with cancelled, done and files_reviewed = that file's index, and the run
\* stops: that file and the later ones are never parsed, sent to the model or
\* commented on (two files, the flag set after the first snapshot: exactly the
\* snapshots files_reviewed = 1 and files_reviewed = 1 cancelled).
C4_CancelAtFileBoundary == [][C4_AtBoundary]_vars /\ []C4_AfterCancel

\* Scenario D: two files, cancelled at the second file's boundary.
C4_Witness ==
    /\ Len(diffs) = 2
    /\ pc = "cancelled"
    /\ Len(snapshots) = 2
    /\ snapshots[1].files_reviewed = 1 /\ ~snapshots[1].cancelled
    /\ snapshots[2].files_reviewed = 1 /\ snapshots[2].cancelled /\ snapshots[2].done
    /\ parsed = <<0>>

\* C5: a cancelled snapshot's findings hold, in the same order, every Finding
\* of each snapshot before it, and its total_findings is not smaller.
C5_CancelKeepsFindings ==
    \A j \in 1..Len(snapshots) :
        snapshots[j].cancelled =>
            \A i \in 1..(j - 1) :
                /\ IsPrefix(snapshots[i].findings, snapshots[j].findings)
                /\ snapshots[i].total_findings <= snapshots[j].total_findings

\* A cancelled snapshot that follows a snapshot with findings.
C5_Witness ==
    /\ Len(snapshots) >= 2
    /\ Last(snapshots).cancelled
    /\ snapshots[Len(snapshots) - 1].findings /= <<>>

\* C6: a failure anywhere inside post_inline_comment is caught: the run is
\* never ended by it.
C6_PostFailureIsCaught == ~(pc = "raised" /\ error = "post_inline_comment")

C7_ModelFailureEndsRun ==
    \A c \in 1..Len(llm_calls) :
        llm_calls[c].raised =>
            LET k == llm_calls[c].file IN
            /\ pc = "raised" /\ error = "model"
            /\ c = Len(llm_calls) /\ k = idx
            /\ \A j \in 1..Len(snapshots) :
                 /\ snapshots[j].files_reviewed <= k
                 /\ ~snapshots[j].done /\ ~snapshots[j].cancelled
            /\ \A j \in 1..Len(parsed) : parsed[j] <= k
            /\ \A f \in FilesOf(llm_calls) :
                 f < k => \E j \in 1..Len(snapshots) : snapshots[j].files_reviewed = f + 1

C7_RaisedIsFinal ==
    pc = "raised" => UNCHANGED <<pc, error, snapshots, parsed, llm_calls, posts, all_findings>>

\* C7: an exception of the model client on file k ends the run with that
\* exception: no snapshot for file k or a later file, no later file parsed or
\* sent to the model, and the snapshots of the files before k are already out.
C7_ModelFailureIsFatal == []C7_ModelFailureEndsRun /\ [][C7_RaisedIsFinal]_vars

\* Scenario E: the model client raises on the second file, after the first
\* file's snapshot.
C7_Witness ==
    /\ pc = "raised" /\ error = "model"
    /\ idx = 1
    /\ Len(snapshots) = 1 /\ snapshots[1].files_reviewed = 1
    /\ snapshots[1].findings /= <<>>

RejectedHead ==
    /\ pc = "records" /\ todo /= <<>>
    /\ Head(todo).obj /\ Head(todo).has_line
    /\ validate_finding_line(Head(todo).line, cur.line_mapping, cur.valid_new_lines) = {}

\* C8: a record whose line the validator rejects is dropped without raising:
\* no finding, no inline comment, no summary entry, and the loop goes on.
C8_RejectedIsDropped ==
    [][(RejectedHead /\ RunStepped)
          => /\ pc' = "records" /\ todo' = Tail(todo)
             /\ UNCHANGED <<all_findings, posts, summary>>]_vars

MalformedHead ==
    /\ pc = "records" /\ todo /= <<>>
    /\ \/ ~Head(todo).obj
       \/ Head(todo).comment = "absent"
       \/ Head(todo).severity = "absent"

\* C9: a record that lacks comment or severity, or is no object, does not end
\* the run with an exception: it is dropped and the loop goes on.
C9_MalformedIsDropped ==
    [][(MalformedHead /\ RunStepped)
          => /\ pc' = "records" /\ todo' = Tail(todo)
             /\ UNCHANGED <<all_findings, posts, summary>>]_vars

\* The findings of the snapshot before snapshot j (none before the first).
FindingsBefore(j) == IF j = 1 THEN <<>> ELSE snapshots[j - 1].findings

\* The per-file snapshot of file k has been yielded.
FileSnapshotOut(k) ==
    \E j \in 1..Len(snapshots) :
        snapshots[j].files_reviewed = k + 1 /\ ~snapshots[j].done /\ ~snapshots[j].cancelled

\* The run is past file k's review.
PastFile(k) == idx > k \/ (idx = k /\ pc = "yielded")

\* C11: when the model's text for a file does not parse into a JSON array,
\* the file contributes zero findings and the run goes on: no exception ends
\* it there, the file's snapshot is yielded with files_reviewed = index + 1
\* and the findings of the snapshot before it, and the next file is taken up.
C11_UnparseableIsZeroFindings ==
    \A c \in 1..Len(llm_calls) :
        (~llm_calls[c].raised /\ ~llm_calls[c].decoded) =>
            LET k == llm_calls[c].file IN
            /\ ~(pc = "raised" /\ idx = k)
            /\ (pc = "records" /\ idx = k) => todo = <<>>
            /\ PastFile(k) => FileSnapshotOut(k)
            /\ \A j \in 1..Len(snapshots) :
                 (snapshots[j].files_reviewed = k + 1 /\ ~snapshots[j].done)
                     => snapshots[j].findings = FindingsBefore(j)

C12_SkipStep ==
    (/\ pc = "loop" /\ idx < Len(diffs) /\ ~stop_flag
     /\ ValidLinesOfFile(idx) = {}
     /\ RunStepped)
        => /\ pc' = "loop" /\ idx' = idx + 1
           /\ UNCHANGED <<todo, llm_calls, posts, all_findings, summary, snapshots,
                          summary_posts, error>>

C12_NothingForSkipped ==
    \A f \in 0..(Len(diffs) - 1) :
        ValidLinesOfFile(f) = {} =>
            /\ f \notin FilesOf(llm_calls) \cup FilesOf(posts)
            /\ \A g \in FindingsOf(all_findings) : g.file /= f
            /\ (idx = f) => (pc \in {"new", "loop", "cancelled", "done", "raised"} /\ todo = <<>>)

\* C12: a file whose parsed valid_new_lines is empty (empty diff text, no
\* hunk, only deletions) is skipped: no model call, no record taken up, no
\* finding and no comment for it, and the loop moves to the next file.
C12_EmptyFileIsSkipped == [][C12_SkipStep]_vars /\ []C12_NothingForSkipped

\* A file with no added line skipped, and the file after it under review.
C12_Witness ==
    /\ pc = "records" /\ idx = 1 /\ todo /= <<>>
    /\ diffs[1] \in {DiffEmpty, DiffNoHunk, DiffDel}
    /\ parsed = <<0, 1>>
    /\ FilesOf(llm_calls) = {1}

\* C13: along the snapshots of a run, files_reviewed and total_findings never
\* decrease, and no snapshot follows one with done or cancelled.
C13_SnapshotsAreMonotone ==
    \A j \in 2..Len(snapshots) :
        /\ snapshots[j].files_reviewed >= snapshots[j - 1].files_reviewed
        /\ snapshots[j].total_findings >= snapshots[j - 1].total_findings
        /\ ~snapshots[j - 1].done /\ ~snapshots[j - 1].cancelled

\* A skipped file, then a reviewed file with a finding, then the final
\* snapshot, after which the generator has returned.
C13_Witness ==
    /\ pc = "done"
    /\ Len(diffs) = 2 /\ parsed = <<0, 1>> /\ FilesOf(llm_calls) = {1}
    /\ Len(snapshots) = 2
    /\ snapshots[1].files_reviewed = 2 /\ snapshots[1].total_findings = 1
    /\ snapshots[2].done /\ ~snapshots[2].cancelled

\* C14: every snapshot (per-file, cancelled or final) has a files_reviewed
\* strictly greater than that of the snapshot emitted before it.
C14_StrictlyIncreasing ==
    \A j \in 2..Len(snapshots) :
        snapshots[j].files_reviewed > snapshots[j - 1].files_reviewed

\* C14 as amended: a per-file snapshot has a files_reviewed strictly greater
\* than that of the snapshot before it; a terminal snapshot (cancelled or
\* final) has one greater than or equal to it.
C14_StrictForFilesOnly ==
    \A j \in 2..Len(snapshots) :
        IF snapshots[j].done \/ snapshots[j].cancelled
        THEN snapshots[j].files_reviewed >= snapshots[j - 1].files_reviewed
        ELSE snapshots[j].files_reviewed > snapshots[j - 1].files_reviewed

\* Two reviewed files and the final snapshot: files_reviewed 1, 2, 2.
C14_Witness ==
    /\ Len(snapshots) = 3
    /\ snapshots[1].files_reviewed = 1
    /\ snapshots[2].files_reviewed = 2 /\ ~snapshots[2].done
    /\ snapshots[3].files_reviewed = 2 /\ snapshots[3].done

\* The run has yielded its final snapshot (not cancelled, no exception).
RunCompleted == pc \in {"final", "done"} /\ ~Last(snapshots).cancelled

\* C15: in a run that is neither cancelled nor ended by an exception, every
\* file, reviewed or skipped, gets a snapshot with files_reviewed = i + 1,
\* cancelled and done false: n such snapshots and then the terminal one.
C15_SnapshotPerFile ==
    RunCompleted =>
        /\ \A i \in 0..(Len(diffs) - 1) : FileSnapshotOut(i)
        /\ Len(snapshots) = Len(diffs) + 1
        /\ Last(snapshots).done

ReviewedFiles == {i \in 0..(Len(diffs) - 1) : ValidLinesOfFile(i) /= {}}

\* C15 as amended: every file for which the parser returns a non-empty
\* valid_new_lines gets exactly one snapshot with files_reviewed = i + 1,
\* cancelled and done false, before the loop moves past it; a skipped file
\* gets none; a run that is neither cancelled nor ended by an exception
\* yields one such snapshot per reviewed file and then the terminal one.
C15_SnapshotPerReviewedFile ==
    /\ \A i \in ReviewedFiles : PastFile(i) <=> FileSnapshotOut(i)
    /\ \A i \in 0..(Len(diffs) - 1) : i \notin ReviewedFiles => ~FileSnapshotOut(i)
    /\ \A j, k \in 1..Len(snapshots) :
         (j /= k /\ snapshots[j].files_reviewed = snapshots[k].files_reviewed)
             => (snapshots[j].done \/ snapshots[k].done)
    /\ RunCompleted =>
         /\ Len(snapshots) = Cardinality(ReviewedFiles) + 1
         /\ Last(snapshots).done
         /\ \A j \in 1..(Len(snapshots) - 1) : ~snapshots[j].done /\ ~snapshots[j].cancelled

\* A completed run over a reviewed file and a skipped file: two snapshots.
C15_Witness ==
    /\ RunCompleted
    /\ Len(diffs) = 2 /\ Cardinality(ReviewedFiles) = 1
    /\ Len(snapshots) = 2
    /\ ~snapshots[1].done /\ snapshots[2].done

\* The files of a sequence of findings never go back.
InFileOrder(fs) == \A a, b \in 1..Len(fs) : a < b => fs[a].file <= fs[b].file

\* The accumulator changes only by a finding for the first record not yet
\* taken up, put last; the records are taken up first to last.
C16_AppendStep ==
    /\ all_findings' /= all_findings =>
          /\ pc = "records" /\ todo /= <<>>
          /\ todo' = Tail(todo) \/ (pc' = "raised" /\ todo' = <<>>)
          /\ Len(all_findings') = Len(all_findings) + 1
          /\ IsPrefix(all_findings, all_findings')
          /\ Last(all_findings').file = idx
          /\ Last(all_findings').comment = Head(todo).comment
          /\ {Last(all_findings').line} =
                 validate_finding_line(Head(todo).line, cur.line_mapping, cur.valid_new_lines)
    /\ (pc = "records" /\ todo' /= todo) => (todo' = Tail(todo) \/ pc' = "raised")

C16_Ordered ==
    /\ InFileOrder(all_findings)
    /\ \A j \in 1..Len(snapshots) :
         /\ InFileOrder(snapshots[j].findings)
         /\ IsPrefix(FindingsBefore(j), snapshots[j].findings)
         /\ IsPrefix(snapshots[j].findings, all_findings)

\* C16: in every snapshot the findings of an earlier file precede those of a
\* later file, the findings of one file stand in the order of the Extractor's
\* records, and each snapshot's findings start with the findings of the
\* snapshot before it.
C16_OrderIsPreserved == [][C16_AppendStep]_vars /\ []C16_Ordered

\* A snapshot with two findings of the first file, in the order of the reply
\* (the line mapped to 5 before the line mapped to 4), then one of the second.
C16_Witness ==
    /\ Len(snapshots) = 2
    /\ snapshots[1].total_findings = 2
    /\ snapshots[2].total_findings = 3
    /\ snapshots[2].findings[1].file = 0 /\ snapshots[2].findings[1].line = 5
    /\ snapshots[2].findings[2].file = 0 /\ snapshots[2].findings[2].line = 4
    /\ snapshots[2].findings[3].file = 1

\* The record at the head is one the loop accepts: an object with comment
\* and severity and a line the validator resolves.
AcceptedHead ==
    /\ pc = "records" /\ todo /= <<>>
    /\ Head(todo).obj /\ Head(todo).has_line
    /\ Head(todo).comment = "str" /\ Head(todo).severity = "low"
    /\ validate_finding_line(Head(todo).line, cur.line_mapping, cur.valid_new_lines) /= {}

\* A step of the generator taken with the flag set.
C17_StepWithFlagSet ==
    (stop_flag /\ RunStepped) =>
        /\ pc' = "cancelled" => (pc = "loop" /\ idx < Len(diffs))
        /\ pc \in {"llm", "records", "yielded"} =>
              /\ idx' = idx \/ (pc = "yielded" /\ idx' = idx + 1 /\ pc' = "loop")
              /\ snapshots' /= snapshots =>
                    /\ pc = "records" /\ todo = <<>> /\ pc' = "yielded"
                    /\ snapshots' = Append(snapshots,
                          [findings |-> all_findings, summary |-> summary,
                           total_findings |-> Len(all_findings),
                           files_reviewed |-> idx + 1,
                           cancelled |-> FALSE, done |-> FALSE])
        /\ AcceptedHead =>
              /\ Len(all_findings') = Len(all_findings) + 1
              /\ post_comments => Len(posts') = Len(posts) + 1
        /\ (pc = "records" /\ todo = <<>>) => Len(snapshots') = Len(snapshots) + 1
        /\ (pc = "loop" /\ idx = Len(diffs)) =>
              /\ pc' \in {"final", "raised"}
              /\ snapshots' /= snapshots => ~Last(snapshots').cancelled

\* A cancelled snapshot comes from the check at the head of a file's pass.
C17_CancelledOnlyAtBoundary ==
    (snapshots' /= snapshots /\ Last(snapshots').cancelled)
        => (pc = "loop" /\ idx < Len(diffs) /\ stop_flag)

\* C17: the flag set while file i is under review (model call, records,
\* posts) changes nothing for file i: its accepted findings are accumulated
\* and posted and its snapshot is yielded with cancelled false; the flag acts
\* at the check before file i + 1 only, and not at all after the last file.
C17_CancelOnlyAtBoundaries ==
    [][C17_StepWithFlagSet /\ C17_CancelledOnlyAtBoundary]_vars

\* The flag is set, the first of two files has been reviewed with a finding
\* posted, and its snapshot is out with cancelled false.
C17_Witness ==
    /\ stop_flag /\ pc = "yielded" /\ idx = 0 /\ Len(diffs) = 2
    /\ posts /= <<>> /\ all_findings /= <<>>
    /\ Len(snapshots) = 1 /\ ~snapshots[1].cancelled /\ ~snapshots[1].done

\* C18: with two runs active, a run yields a cancelled snapshot (and stops
\* before the rest of its files) only when a stop request was aimed at it.
C18_IndependentlyCancellable ==
    /\ (\E k \in 1..Len(snapshots) : snapshots[k].cancelled) => 1 \in stop_requests
    /\ (\E k \in 1..Len(peer.snapshots) : peer.snapshots[k].cancelled) => 2 \in stop_requests

\* post_summary_comment is called in the step that follows the last file's
\* pass, when no terminal snapshot is out yet.
C19_PostStep ==
    summary_posts' /= summary_posts =>
        /\ summary_posts' = summary_posts + 1
        /\ pc = "loop" /\ idx = Len(diffs)
        /\ \A k \in 1..Len(snapshots) : ~snapshots[k].done /\ ~snapshots[k].cancelled
        /\ UNCHANGED <<all_findings, summary, posts, llm_calls, parsed>>

C19_State ==
    /\ summary_posts \in {0, 1}
    /\ summary_posts = 1 => (post_comments /\ summary /= <<>> /\ idx = Len(diffs))
    /\ (\E k \in 1..Len(snapshots) : snapshots[k].cancelled) => summary_posts = 0
    /\ RunCompleted =>
         /\ summary_posts = (IF post_comments /\ summary /= <<>> THEN 1 ELSE 0)
         /\ Last(snapshots) =
                [findings |-> all_findings, summary |-> summary,
                 total_findings |-> Len(all_findings), files_reviewed |-> Len(diffs),
                 cancelled |-> FALSE, done |-> TRUE]

\* C19: after all files, without cancellation, post_summary_comment is called
\* once when posting is enabled and the summary is non-empty and not at all
\* otherwise, after the last file's pass and before the final snapshot, which
\* has done true, cancelled false and files_reviewed = the number of files.
C19_SummaryPostedOnce == [][C19_PostStep]_vars /\ []C19_State

\* A completed run over two files whose summary was posted.
C19_Witness ==
    /\ RunCompleted /\ Len(diffs) = 2
    /\ summary_posts = 1 /\ Len(summary) >= 2
    /\ Last(snapshots).files_reviewed = 2

\* C20: a failure of post_summary_comment is caught: once the call was made
\* the final snapshot, done and with all accumulated findings, is yielded.
C20_SummaryFailureIsCaught ==
    summary_posts = 1 =>
        /\ pc \in {"final", "done"}
        /\ Last(snapshots).done /\ ~Last(snapshots).cancelled
        /\ Last(snapshots).findings = all_findings

\* C21: the findings a snapshot carries are the caller's own: no snapshot
\* holds the list the generator accumulates into, and what a consumer writes
\* to one snapshot changes neither the accumulator nor any other snapshot.
C21_ConsumerWrote == pc' = pc /\ Len(snapshots') = Len(snapshots) /\ snapshots' # snapshots

C21_WrittenTo == {m \in 1..Len(snapshots) : snapshots'[m] # snapshots[m]}

C21_SnapshotsAreCopies ==
    /\ [](live = {})
    /\ [][~C21_ConsumerWrote => C21_WrittenTo = {}]_vars
    /\ [][C21_ConsumerWrote =>
            all_findings' = all_findings /\ Cardinality(C21_WrittenTo) = 1]_vars

\* C22: review_merge_request returns only once the stream has yielded its
\* terminal snapshot (the final one of a completed run, the cancelled one of a
\* cancelled run), and returns that snapshot without its done key and with
\* every other field as yielded; it never returns a non-terminal snapshot,
\* and nothing when the stream raises.
C22_Terminal(snapshot) ==
    /\ snapshot.done
    /\ \/ snapshot.cancelled /\ snapshot.files_reviewed < Len(diffs)
       \/ ~snapshot.cancelled /\ snapshot.files_reviewed = Len(diffs)

C22_WrapperReturnsTerminal ==
    /\ \A k \in 1..Len(snapshots) - 1 : ~snapshots[k].done
    /\ pc \in {"cancelled", "final", "raised"} => result = {}
    /\ pc = "done" => result # {}
    /\ \A r \in result :
          /\ snapshots # <<>> /\ C22_Terminal(Last(snapshots))
          /\ DOMAIN r = DOMAIN Last(snapshots) \ {"done"}
          /\ r.findings = Last(snapshots).findings
          /\ r.summary = Last(snapshots).summary
          /\ r.total_findings = Last(snapshots).total_findings
          /\ r.files_reviewed = Last(snapshots).files_reviewed
          /\ r.cancelled = Last(snapshots).cancelled

C22_Witness ==
    /\ Len(snapshots) = 3
    /\ \E r \in result : ~r.cancelled /\ r.total_findings > 0

C22_WitnessCancelled ==
    /\ Len(snapshots) = 2
    /\ \E r \in result : r.cancelled /\ r.total_findings > 0

\* C23: every Finding of the accumulator and of every snapshot has a severity
\* that is one of low, medium, high, whatever the records of the model carry.
Severities == {"low", "medium", "high"}

C23_SeverityIsKnown ==
    /\ \A j \in 1..Len(all_findings) : all_findings[j].severity \in Severities
    /\ \A k \in 1..Len(snapshots) : \A j \in 1..Len(snapshots[k].findings) :
          snapshots[k].findings[j].severity \in Severities

\* C24: at every point of the parse, and so in what it returns, the values of
\* line_mapping are exactly the members of valid_new_lines; the validator's
\* look-up of a key of the map therefore never ends at a value outside the set.
C24_RangeIsValidLines ==
    /\ {ps.line_mapping[k] : k \in DOMAIN ps.line_mapping} = ps.valid_new_lines
    /\ \A k \in DOMAIN ps.line_mapping :
          validate_finding_line(k, ps.line_mapping, ps.valid_new_lines)
              \in {{k}, {ps.line_mapping[k]}}

C24_Witness ==
    /\ ParseDone(lines, ps)
    /\ Cardinality(ps.valid_new_lines) = 1
    /\ Cardinality(DOMAIN ps.line_mapping) = 2

\* C25: line_mapping is keyed by the 0-based position of the emitted line in
\* formatted_lines, every emitted line counted: the line at a key k is an added
\* line of the diff rendered with the number line_mapping[k], and every line
\* rendered that way has its position as a key.
C25_KeyedByPosition ==
    /\ ps.formatted_line_num = Len(ps.formatted_lines)
    /\ \A k \in DOMAIN ps.line_mapping :
          /\ k + 1 \in 1..Len(ps.formatted_lines)
          /\ ps.formatted_lines[k + 1].ann
          /\ ps.formatted_lines[k + 1].num = ps.line_mapping[k]
          /\ lines[ps.formatted_lines[k + 1].src + 1].t = "+"
    /\ \A p \in 1..Len(ps.formatted_lines) :
          ps.formatted_lines[p].ann => (p - 1) \in DOMAIN ps.line_mapping

C25_Witness ==
    /\ ParseDone(lines, ps)
    /\ DOMAIN ps.line_mapping = {1, 3}
    /\ ~ps.formatted_lines[3].ann

\* C26: a no-newline marker ends its hunk's line stream.  The step that meets
\* it inside a hunk leaves the hunk and changes nothing else; the marker and
\* every line after it up to the next hunk header, a line starting with "+"
\* included, is emitted as it is, with line_mapping, valid_new_lines and the
\* two counters unchanged.
C26_FromMarker(ls, j) ==
    \E m \in 1..j : ls[m].t = "\\" /\ \A k \in (m + 1)..j : ls[k].t # "hunk"

C26_MeetsMarker == ps.in_hunk /\ ps.i < Len(lines) /\ lines[ps.i + 1].t = "\\"

C26_Step ==
    /\ C26_MeetsMarker => ps' = [ps EXCEPT !.in_hunk = FALSE]
    /\ (ps'.i = ps.i + 1 /\ C26_FromMarker(lines, ps.i + 1)) =>
          ps' = [ps EXCEPT !.formatted_lines = Append(@, RawLine(ps.i)),
                           !.formatted_line_num = @ + 1,
                           !.i = @ + 1]

C27_MeetsMalformed == ps.in_hunk /\ ps.i < Len(lines) /\ lines[ps.i + 1].t = "@@"

C27_Step ==
    C27_MeetsMalformed =>
        ps' = [ps EXCEPT !.formatted_lines = Append(@, RawLine(ps.i)),
                         !.formatted_line_num = @ + 1,
                         !.i = @ + 1]

C27_NoMarker(ls) == \A j \in 1..Len(ls) : ls[j].t # "\\"

C27_AllNumbered ==
    (ParseDone(lines, ps) /\ C27_NoMarker(lines))
        => ps.valid_new_lines = AddedLineNumbers(lines)

C27_MalformedHeaderIsHarmless == []C27_AllNumbered /\ [][C27_Step]_vars

\* C28: a removed line inside a hunk is not emitted and advances only the
\* old-line counter: the step that meets it changes nothing but old_line and
\* the read position, so new_line, line_mapping, valid_new_lines and the count
\* of emitted lines are as before, and the next added line gets the number it
\* would have had without the removed line.
C28_MeetsRemoved == ps.in_hunk /\ ps.i < Len(lines) /\ lines[ps.i + 1].t = "-"

C28_Step == C28_MeetsRemoved => ps' = [ps EXCEPT !.old_line = @ + 1, !.i = @ + 1]

C28_NextAdded ==
    (C28_MeetsRemoved /\ ps.i + 1 < Len(lines) /\ lines[ps.i + 2].t = "+")
        => InnerStep(lines, ps').formatted_lines
               = Append(ps.formatted_lines, NumberedLine(ps.i + 1, ps.new_line))

C28_RemovedOnlyAdvancesOld == [][C28_Step /\ C28_NextAdded]_vars

C28_Witness ==
    /\ ParseDone(lines, ps)
    /\ Len(lines) = 4
    /\ lines[1].t = "hunk" /\ lines[2].t = "+" /\ lines[3].t = "-" /\ lines[4].t = "+"
    /\ ps.formatted_lines
           = <<RawLine(0), NumberedLine(1, lines[1].n), NumberedLine(3, lines[1].n + 1)>>
    /\ ps.old_line = lines[1].o + 1

\* C29: a hunk header starts its hunk with new_line set to its new_start.  The
\* number of every line emitted as an added line is its own hunk's new_start
\* plus the context and added lines before it in that hunk, and inside a hunk
\* new_line is the header's new_start plus the context and added lines read
\* since: nothing before the header enters either.
C29_SinceHeader(h, j) == Cardinality({k \in (h + 1)..j : lines[k].t \in {" ", "+"}})

C29_NumbersFromOwnHeader ==
    /\ \A p \in 1..Len(ps.formatted_lines) :
          LET j == ps.formatted_lines[p].src + 1
              h == HeaderOf(lines, j)
          IN  ps.formatted_lines[p].ann =>
                  /\ h # 0
                  /\ ps.formatted_lines[p].num = lines[h].n + C29_SinceHeader(h, j - 1)
    /\ ps.in_hunk =>
          LET h == HeaderOf(lines, ps.i + 1)
          IN  h # 0 /\ ps.new_line = lines[h].n + C29_SinceHeader(h, ps.i)

C29_Witness ==
    /\ ParseDone(lines, ps)
    /\ lines = <<HunkHeader(2, 3), DiffLine("+"), HunkHeader(1, 1), DiffLine("+")>>
    /\ ps.formatted_lines
           = <<RawLine(0), NumberedLine(1, 3), RawLine(2), NumberedLine(3, 1)>>

\* C30: the lines before the first hunk header are emitted as they are and in
\* their order, whatever they start with, and leave line_mapping,
\* valid_new_lines and the two counters as they were at the start: the first
\* hunk is numbered as if they were not there.
C30_FirstHeader ==
    LET hs == {k \in 1..Len(lines) : lines[k].t = "hunk"} IN
    IF hs = {} THEN Len(lines) + 1 ELSE Min(hs)

C30_PreambleIsPassedThrough ==
    /\ \A p \in 1..Len(ps.formatted_lines) :
          p < C30_FirstHeader => ps.formatted_lines[p] = RawLine(p - 1)
    /\ ps.i < C30_FirstHeader =>
          /\ ~ps.in_hunk
          /\ ps.line_mapping = <<>> /\ ps.valid_new_lines = {}
          /\ ps.old_line = 0 /\ ps.new_line = 0
          /\ Len(ps.formatted_lines) = ps.i

C30_Witness ==
    /\ ParseDone(lines, ps)
    /\ lines = <<DiffLine("+"), DiffLine(" "), HunkHeader(1, 1), DiffLine("+")>>
    /\ ps.formatted_lines = <<RawLine(0), RawLine(1), RawLine(2), NumberedLine(3, 1)>>
    /\ ps.valid_new_lines = {1}

\* C31: a stop request made while the run is active and has a file boundary
\* ahead cancels it, whatever the other run does: no step clears the flag
\* before the run's next boundary check, and a boundary check with the flag
\* set ends the run with a cancelled snapshot.
C31_BoundaryAhead ==
    \/ pc = "loop" /\ idx < Len(diffs)
    \/ pc \in {"llm", "records", "yielded"} /\ idx + 1 < Len(diffs)

C31_FlagStays == (stop_flag /\ C31_BoundaryAhead) => stop_flag'

C31_FlagIsObserved ==
    (stop_flag /\ pc = "loop" /\ idx < Len(diffs) /\ pc' # pc) =>
        /\ pc' = "cancelled"
        /\ Last(snapshots').cancelled /\ Last(snapshots').done

C31_StopCancelsActiveRun == [][C31_FlagStays /\ C31_FlagIsObserved]_vars

\* C32: the run's first step clears the stop flag, so a flag found set from a
\* stop request made before that step never cancels the run: as long as no
\* stop request is made while the run is active the flag stays clear, no
\* cancelled snapshot is yielded, and a run that reaches its end has parsed
\* every file and ends with cancelled = false.
C32_NoLaterRequest == 1 \notin stop_requests

Places(findings) ==
    [j \in 1..Len(findings) |-> [file |-> findings[j].file, line |-> findings[j].line]]

\* C33: with posting enabled post_inline_comment is called exactly once for
\* each Finding of the accumulator, with the Finding's file and validated line
\* and in the accumulator's order, in the step that appends the Finding and so
\* before the snapshot of its file; with posting disabled neither
\* post_inline_comment nor post_summary_comment is ever called.
C33_PostPerFinding ==
    /\ ~post_comments => posts = <<>> /\ summary_posts = 0
    /\ post_comments =>
          /\ posts = Places(all_findings)
          /\ \A k \in 1..Len(snapshots) :
                IsPrefix(Places(snapshots[k].findings), posts)

\* What does hold: the one Finding without a call is the last of a run that
\* an exception ended between the append and the call.
C33_PostPerYieldedFinding ==
    /\ ~post_comments => posts = <<>> /\ summary_posts = 0
    /\ post_comments =>
          /\ \/ posts = Places(all_findings)
             \/ /\ pc = "raised" /\ all_findings # <<>>
                /\ posts = Places(SubSeq(all_findings, 1, Len(all_findings) - 1))
          /\ \A k \in 1..Len(snapshots) :
                IsPrefix(Places(snapshots[k].findings), posts)

\* C34: a run that has yielded a cancelled snapshot has not called
\* post_summary_comment and never will, posting enabled and inline comments
\* already posted or not: after the cancelled snapshot the run only ends.
C34_NoSummaryAfterCancel ==
    (\E k \in 1..Len(snapshots) : snapshots[k].cancelled) =>
        /\ summary_posts = 0
        /\ pc \in {"cancelled", "done"}
        /\ Last(snapshots).cancelled

C34_Witness ==
    /\ pc = "done" /\ Last(snapshots).cancelled
    /\ post_comments /\ posts # <<>> /\ summary # <<>>
    /\ summary_posts = 0

\* C35: in every snapshot yielded, total_findings is the length of findings
\* and summary has one entry for each Finding, in the same order, naming the
\* Finding's file and line.
C35_SummaryMatchesFindings ==
    \A k \in 1..Len(snapshots) :
        /\ snapshots[k].total_findings = Len(snapshots[k].findings)
        /\ Len(snapshots[k].summary) = Len(snapshots[k].findings)
        /\ \A j \in 1..Len(snapshots[k].findings) :
              /\ snapshots[k].summary[j].file = snapshots[k].findings[j].file
              /\ snapshots[k].summary[j].line = snapshots[k].findings[j].line

C35_Witness ==
    /\ ~post_comments
    /\ Len(snapshots) = 3 /\ Last(snapshots).done
    /\ Last(snapshots).total_findings = 3
    /\ Last(snapshots).summary[1] = [file |-> 0, line |-> 5]
    /\ Last(snapshots).summary[3].file = 1

\* The exceptions that come out of a collaborator: the host's diffs, the model
\* client, the two comment posts.
CollaboratorErrors == {"get_mr_diffs", "model", "post_inline_comment", "post_summary_comment"}

\* C36: a run whose collaborators all return ends with its terminal snapshot.
\* There is at most one snapshot per file before the terminal one, the done
\* snapshot is the last one, and the run ends without one only when a
\* collaborator raised.
C36_EndsWithTerminalSnapshot ==
    /\ Len(snapshots) <= Len(diffs) + 1
    /\ \A k \in 1..Len(snapshots) : snapshots[k].done <=> (k = Len(snapshots) /\ pc \in {"cancelled", "final", "done"})
    /\ pc = "done" => snapshots # <<>> /\ Last(snapshots).done
    /\ pc = "raised" => error \in CollaboratorErrors

\* C37: the model client is called at most once per file, in the order of the
\* files and never for a skipped one; a run that completes has called it
\* exactly once for each file with a non-empty valid_new_lines; and the call
\* for a file is made only when the snapshot of every file reviewed before it
\* is out and the consumer has asked for more.
C37_OneCallPerFileInOrder ==
    /\ \A a, b \in 1..Len(llm_calls) : a < b => llm_calls[a].file < llm_calls[b].file
    /\ FilesOf(llm_calls) \subseteq ReviewedFiles
    /\ \A k \in 1..Len(llm_calls) :
          /\ llm_calls[k].file <= idx
          /\ \A i \in FilesOf(llm_calls) : i < llm_calls[k].file => FileSnapshotOut(i)
    /\ pc = "llm" => idx \notin FilesOf(llm_calls)
    /\ pc = "yielded" => llm_calls # <<>> /\ Last(llm_calls).file = idx
    /\ RunCompleted => FilesOf(llm_calls) = ReviewedFiles

C37_Witness ==
    /\ RunCompleted
    /\ Len(diffs) = 2
    /\ Len(llm_calls) = 2 /\ llm_calls[1].file = 0 /\ llm_calls[2].file = 1
    /\ Len(snapshots) = 3

\* Line j of a diff lies in a hunk's line stream: a hunk header comes before
\* it, with no other line starting with "@@" and no marker in between.
InStream(ls, j) ==
    \E h \in 1..(j - 1) :
        /\ ls[h].t = "hunk"
        /\ \A k \in (h + 1)..(j - 1) : ls[k].t \notin {"hunk", "@@", "\\"}

\* The removed lines among the first n lines of a diff (0-based positions).
DroppedOf(ls, n) == {j \in 0..(n - 1) : ls[j + 1].t = "-" /\ InStream(ls, j + 1)}

\* What is left to do: the lines not yet consumed, and the hunk to leave.
C38_Variant == 2 * (Len(lines) - ps.i) + (IF ps.in_hunk THEN 1 ELSE 0)

C38_Conserved ==
    /\ ps.i \in 0..Len(lines)
    /\ \A p, q \in 1..Len(ps.formatted_lines) :
          p < q => ps.formatted_lines[p].src < ps.formatted_lines[q].src
    /\ {ps.formatted_lines[p].src : p \in 1..Len(ps.formatted_lines)}
           = (0..(ps.i - 1)) \ DroppedOf(lines, ps.i)
    /\ Len(ps.formatted_lines) = ps.i - Cardinality(DroppedOf(lines, ps.i))
    /\ \A p \in 1..Len(ps.formatted_lines) :
          LET j == ps.formatted_lines[p].src + 1 IN
          ps.formatted_lines[p].ann <=> (lines[j].t = "+" /\ InStream(lines, j))

C38_Step ==
    /\ ps'.i \in {ps.i, ps.i + 1}
    /\ C38_Variant' < C38_Variant

\* C38: parse_diff_for_new_lines terminates on every input (each step consumes
\* one line or leaves the hunk it is in, and the last step is reached) and
\* conserves lines: the lines emitted are the lines consumed, in their order,
\* without the removed lines of the hunks' line streams, and an emitted line is
\* re-rendered exactly when it is an added line of a hunk's line stream; so
\* the count of emitted lines is the count of lines minus the removed ones.
C38_TerminatesAndConserves ==
    /\ []C38_Conserved
    /\ [][C38_Step]_vars
    /\ <>[]ParseDone(lines, ps)

C38_Witness ==
    /\ ParseDone(lines, ps)
    /\ Len(lines) = 4
    /\ lines[1].t = "hunk" /\ lines[2].t = "-" /\ lines[3].t = "@@" /\ lines[4].t = "-"
    /\ ps.formatted_lines = <<RawLine(0), RawLine(2), RawLine(3)>>

\* C39: when a call of get_gitlab_client returns the cache holds at most 100
\* entries, one per key, and for a configured call the client returned is the
\* one the cache holds for the call's key; a call for a cached key builds no
\* client and leaves the cache as it is; a call that makes the cache shrink
\* found it full, removes its 50 oldest entries and keeps, as the newest
\* entry, the client it has just built.
C39_State ==
    /\ Len(client_cache) <= CacheLimit
    /\ \A p, q \in 1..Len(client_cache) :
          p # q => client_cache[p].key # client_cache[q].key
    /\ returned.key # 0 =>
          /\ returned.key \in KeysOf(client_cache)
          /\ ClientOf(client_cache, returned.key) = returned.client

C39_HitStep ==
    returned'.key \in KeysOf(client_cache) =>
        /\ created' = created /\ client_cache' = client_cache
        /\ returned'.client = ClientOf(client_cache, returned'.key)

C39_EvictStep ==
    Len(client_cache') < Len(client_cache) =>
        /\ Len(client_cache) = CacheLimit
        /\ created' = created + 1
        /\ client_cache' =
               Append(SubSeq(client_cache, EvictCount + 1, CacheLimit),
                      [key |-> returned'.key, client |-> created'])
        /\ returned'.client = created'

C39_CacheIsBounded == []C39_State /\ [][C39_HitStep /\ C39_EvictStep]_vars

C39_Witness ==
    /\ created = CacheLimit + 1
    /\ Len(client_cache) = CacheLimit + 1 - EvictCount
    /\ client_cache[1].key = EvictCount + 1
    /\ returned = [key |-> CacheLimit + 1, client |-> CacheLimit + 1]

\* C10: parse_llm_output never raises: with no bracket span, or a span that
\* does not decode, it returns the empty sequence; with a span that decodes,
\* the decoded elements in order.
C10_ExtractorNeverRaises ==
    eout.state /= "idle" =>
        LET span == re_search(text)
            decodes == span /= <<>> /\ json_loads(span) = "ok"
        IN /\ eout.state = "returned"
           /\ ~decodes => eout.out = <<>>
           /\ decodes => eout.out = Decoded(span)

====
